---- MODULE Spec2Model ----
(***************************************************************************)
(* Model of wgpu-hal/src/dx12/mod.rs: the native status translation        *)
(* (HResult), the swapchain wait, and the Surface / Queue operations        *)
(* (configure, unconfigure, acquire_texture, discard_texture, present,      *)
(* submit) over a native layer whose calls may fail.                        *)
(*                                                                         *)
(* 32-bit values are written as their two's-complement i32 reading, so      *)
(* 0xFFFFFFFF is -1 and 0x8007000E is -2147024882.                          *)
(***************************************************************************)
EXTENDS Integers, Sequences, FiniteSets, TLC

(* ---------------------------------------------------------------------- *)
(* Bounds                                                                  *)
(* ---------------------------------------------------------------------- *)
MaxSwapChainSize == 2
MaxConfigures == 3
MaxAcquireCalls == 3
MaxPayload == 2
\* crate::MAX_COLOR_TARGETS and crate::MAX_VERTEX_BUFFERS, as small as keeps
\* every case of PassState
MaxColorTargets == 2
MaxVertexBuffers == 2
MaxOpenPasses == 2
\* largest small mip_level_count, depth_or_array_layers and plane count of
\* the textures looked at (a large count, LargeCount, is looked at besides)
MaxMips == 2
MaxLayers == 2
MaxPlanes == 2

(* ---------------------------------------------------------------------- *)
(* Native constants                                                        *)
(* ---------------------------------------------------------------------- *)
E_UNEXPECTED == -2147418113
E_NOTIMPL == -2147467263
E_OUTOFMEMORY == -2147024882
E_INVALIDARG == -2147024809

WAIT_OBJECT_0 == 0
WAIT_ABANDONED == 128
WAIT_TIMEOUT == 258
WAIT_FAILED == -1
INFINITE == -1

\* the status codes a native call is taken to return: S_OK, S_FALSE, the
\* largest success code, the four codes into_result names, E_FAIL
\* (0x80004005), DXGI_ERROR_DEVICE_REMOVED (0x887A0005), 0xFFFFFFFF and
\* 0x80000000
HResultCodes ==
    {0, 1, 2147483647, E_UNEXPECTED, E_NOTIMPL, E_OUTOFMEMORY,
     E_INVALIDARG, -2147467259, -2005270523, -1, -2147483647 - 1}

\* the statuses WaitForSingleObject is taken to return
WaitStatuses ==
    {WAIT_OBJECT_0, WAIT_ABANDONED, WAIT_TIMEOUT, WAIT_FAILED, 1, 129, 192}

Timeouts == {0, 16, INFINITE}

PresentModes == {"Immediate", "Fifo"}

Configs ==
    [swap_chain_size : 1..MaxSwapChainSize, present_mode : PresentModes]

(* ---------------------------------------------------------------------- *)
(* Option<T> as a sequence of length 0 or 1                                *)
(* ---------------------------------------------------------------------- *)
None == <<>>
Some(x) == <<x>>
IsSome(o) == Len(o) = 1
Unwrap(o) == o[1]

(* ---------------------------------------------------------------------- *)
(* HResult                                                                 *)
(* ---------------------------------------------------------------------- *)
HexDigit(d) ==
    <<"0", "1", "2", "3", "4", "5", "6", "7",
      "8", "9", "A", "B", "C", "D", "E", "F">>[d + 1]

\* the four hexadecimal digits of a 16-bit value, most significant first
Hex4(v) ==
    <<HexDigit(v \div 4096), HexDigit((v \div 256) % 16),
      HexDigit((v \div 16) % 16), HexDigit(v % 16)>>

RECURSIVE StripZeros(_)
StripZeros(s) ==
    IF Len(s) > 1 /\ s[1] = "0" THEN StripZeros(Tail(s)) ELSE s

\* format!("0x{:X}", code as u32), as the sequence of its characters
FormatHex(code) ==
    LET hi == (code \div 65536) % 65536
        lo == code % 65536
    IN  <<"0", "x">> \o StripZeros(Hex4(hi) \o Hex4(lo))

into_result_ArgAsUnexpected(code) ==
    IF code >= 0 THEN <<"Ok">>
    ELSE IF code = E_UNEXPECTED \/ code = E_INVALIDARG
        THEN <<"Err", "unexpected">>
    ELSE IF code = E_NOTIMPL THEN <<"Err", "not implemented">>
    ELSE IF code = E_OUTOFMEMORY THEN <<"Err", "out of memory">>
    ELSE <<"Err", FormatHex(code)>>

\* HResult<()>::into_result for i32
into_result(code) ==
    IF code >= 0 THEN <<"Ok">>
    ELSE IF code = E_UNEXPECTED THEN <<"Err", "unexpected">>
    ELSE IF code = E_NOTIMPL THEN <<"Err", "not implemented">>
    ELSE IF code = E_OUTOFMEMORY THEN <<"Err", "out of memory">>
    ELSE IF code = E_INVALIDARG THEN <<"Err", "invalid argument">>
    ELSE <<"Err", FormatHex(code)>>

IsOk(r) == r[1] = "Ok"
IsErr(r) == r[1] = "Err"

into_device_result_OomAsLost(code) ==
    IF IsOk(into_result(code)) THEN <<"Ok">> ELSE <<"Err", "Lost">>

\* HResult<()>::into_device_result for i32
into_device_result(code) ==
    IF IsOk(into_result(code)) THEN <<"Ok">>
    ELSE IF code = E_OUTOFMEMORY THEN <<"Err", "OutOfMemory">>
    ELSE <<"Err", "Lost">>

\* HResult<T>::into_result for (T, i32)
pair_into_result(pair) ==
    LET r == into_result(pair[2])
    IN  IF IsOk(r) THEN <<"Ok", pair[1]>> ELSE r

\* HResult<T>::into_device_result for (T, i32)
pair_into_device_result(pair) ==
    LET r == into_device_result(pair[2])
    IN  IF IsOk(r) THEN <<"Ok", pair[1]>> ELSE r

(* ---------------------------------------------------------------------- *)
(* SwapChain                                                               *)
(* ---------------------------------------------------------------------- *)
wait_TimeoutAsLost(sc, timeout_ms, status) ==
    [sc |-> sc,
     result |-> IF status = WAIT_OBJECT_0 THEN <<"Ok", TRUE>>
                ELSE <<"Err", "Lost">>]

\* SwapChain::wait; status is what WaitForSingleObject(self.waitable,
\* timeout_ms) returns.  sc is the swapchain after the call (&mut self).
wait(sc, timeout_ms, status) ==
    [sc |-> sc,
     result |-> IF status = WAIT_ABANDONED \/ status = WAIT_FAILED
                    THEN <<"Err", "Lost">>
                ELSE IF status = WAIT_OBJECT_0 THEN <<"Ok", TRUE>>
                ELSE IF status = WAIT_TIMEOUT THEN <<"Ok", FALSE>>
                ELSE <<"Err", "Lost">>]

NewSwapChain_CountAll(raw, resources, waitable) ==
    [raw |-> raw, resources |-> resources, waitable |-> waitable,
     acquired_count |-> Len(resources) + 1]

\* the SwapChain value Surface::configure stores
NewSwapChain(raw, resources, waitable) ==
    [raw |-> raw, resources |-> resources, waitable |-> waitable,
     acquired_count |-> 0]

(* ---------------------------------------------------------------------- *)
(* Native layer                                                            *)
(* ---------------------------------------------------------------------- *)
\* Native objects are named by the configure call (epoch) that obtained
\* them.
SwapChain1Handle(k) == <<"IDXGISwapChain1", k>>
SwapChain3Handle(k) == <<"IDXGISwapChain3", k>>
WaitableHandle(k) == <<"Waitable", k>>
ResourceHandle(k, i) == <<"Resource", k, i>>

\* swap_chain.GetBuffer(i, ..) during configure call k
GetBuffer(k, i) == ResourceHandle(k, i)

GetBuffers_FromOne(k, n) == [p \in 1..n |-> ResourceHandle(k, p)]

\* the resources vector built by the GetBuffer loop of configure: position
\* p (from 1) holds native buffer index p - 1
GetBuffers(k, n) == [p \in 1..n |-> GetBuffer(k, p - 1)]

SwapChainFlags_TearingUnlessImmediate(config) ==
    {"FRAME_LATENCY_WAITABLE_OBJECT"} \cup
        (IF config.present_mode = "Immediate" THEN {} ELSE {"ALLOW_TEARING"})

\* the swapchain flags configure computes from config.present_mode
SwapChainFlags(config) ==
    {"FRAME_LATENCY_WAITABLE_OBJECT"} \cup
        (IF config.present_mode = "Immediate" THEN {"ALLOW_TEARING"} ELSE {})

take_LeaveInPlace(o) == [value |-> o, left |-> o]

\* self.swap_chain.take(): the value taken and the value left in place
take(o) == [value |-> o, left |-> None]

\* Device::wait_idle: signals the idler fence on the present queue, asks
\* for the event on completion (status hr) and, when that succeeded, blocks
\* without timeout until the GPU has no work in flight.
wait_idle(hr, work) ==
    LET r == into_device_result(hr)
    IN  [result |-> r, inflight |-> IF IsOk(r) THEN {} ELSE work]

(* ---------------------------------------------------------------------- *)
(* PassState                                                               *)
(* ---------------------------------------------------------------------- *)
PassKinds == {"Render", "Compute", "Transfer"}

\* a vertex buffer view: 0 is the zeroed view, 1 a view a caller has set
VertexBufferViews == {0, 1}

\* PassState::new
PassState_new ==
    [has_label |-> FALSE,
     resolves |-> <<>>,
     vertex_buffers |-> [slot \in 1..MaxVertexBuffers |-> 0],
     dirty_vertex_buffers |-> 0,
     kind |-> "Transfer"]

clear_KeepKind(p) ==
    [p EXCEPT !.has_label = FALSE, !.resolves = <<>>,
              !.dirty_vertex_buffers = 0]

clear_AsNew(p) == PassState_new

\* PassState::clear
clear(p) ==
    [p EXCEPT !.has_label = FALSE, !.resolves = <<>>,
              !.dirty_vertex_buffers = 0, !.kind = "Transfer"]

(* ---------------------------------------------------------------------- *)
(* The errors Surface::configure returns                                   *)
(* ---------------------------------------------------------------------- *)
ErrWindowInUse_Lost == <<"Err", "Lost">>

\* Err(crate::SurfaceError::Other("window is in use"))
ErrWindowInUse == <<"Err", "Other", "window is in use">>

\* Err(crate::SurfaceError::Other("swap chain creation"))
ErrSwapChainCreation == <<"Err", "Other", "swap chain creation">>

\* Err(crate::SurfaceError::Other("swap chain cast to 3"))
ErrSwapChainCast == <<"Err", "Other", "swap chain cast to 3">>

(* ---------------------------------------------------------------------- *)
(* u32 arithmetic                                                          *)
(*                                                                         *)
(* A u32 is held as its four base-256 digits, lowest first, because sums   *)
(* and products of u32 values do not fit the integers of the checker. An   *)
(* operation that overflows panics in a build with overflow checks and     *)
(* wraps modulo 2^32 in a build without them.                              *)
(* ---------------------------------------------------------------------- *)
Radix == 256
U32Len == 4

RECURSIVE Digits(_, _)
Digits(n, k) ==
    IF k = 0 THEN <<>> ELSE <<n % Radix>> \o Digits(n \div Radix, k - 1)

RECURSIVE Propagate(_, _)
Propagate(cols, carry) ==
    IF cols = <<>>
    THEN <<>>
    ELSE <<(Head(cols) + carry) % Radix>>
            \o Propagate(Tail(cols), (Head(cols) + carry) \div Radix)

RECURSIVE SumOf(_)
SumOf(terms) == IF terms = <<>> THEN 0 ELSE Head(terms) + SumOf(Tail(terms))

Digit(a, i) == IF i \in 1..Len(a) THEN a[i] ELSE 0

\* the exact sum and the exact product of two digit sequences
WideAdd(a, b) ==
    LET n == (IF Len(a) >= Len(b) THEN Len(a) ELSE Len(b)) + 1
    IN  Propagate([i \in 1..n |-> Digit(a, i) + Digit(b, i)], 0)
WideMul(a, b) ==
    Propagate([k \in 1..(Len(a) + Len(b)) |->
                  SumOf([i \in 1..Len(a) |-> a[i] * Digit(b, k + 1 - i)])], 0)

\* a < b as numbers
WideLess(a, b) ==
    LET n == IF Len(a) >= Len(b) THEN Len(a) ELSE Len(b)
    IN  \E i \in 1..n :
            /\ Digit(a, i) < Digit(b, i)
            /\ \A j \in (i + 1)..n : Digit(a, j) = Digit(b, j)

FitsU32(w) == \A i \in (U32Len + 1)..Len(w) : w[i] = 0
U32(n) == <<"Ok", Digits(n, U32Len)>>
Panic == <<"panic">>

\* the outcome of a u32 operation whose exact result is w
u32_outcome(w, overflow_checks) ==
    IF ~FitsU32(w) /\ overflow_checks
    THEN Panic
    ELSE <<"Ok", SubSeq(w, 1, U32Len)>>

\* x + y and x * y on u32; an operand that panicked never reaches the
\* operation
u32_add(x, y, overflow_checks) ==
    IF x = Panic \/ y = Panic
    THEN Panic
    ELSE u32_outcome(WideAdd(x[2], y[2]), overflow_checks)
u32_mul(x, y, overflow_checks) ==
    IF x = Panic \/ y = Panic
    THEN Panic
    ELSE u32_outcome(WideMul(x[2], y[2]), overflow_checks)

(* ---------------------------------------------------------------------- *)
(* Texture                                                                 *)
(* ---------------------------------------------------------------------- *)
TextureDimensions == {"D1", "D2", "D3"}
LargeCount == 2 ^ 16

\* the fields of Texture that the subresource index reads
TextureValues ==
    [dimension : TextureDimensions,
     size : [depth_or_array_layers : (1..MaxLayers) \cup {LargeCount}],
     mip_level_count : (1..MaxMips) \cup {LargeCount}]

\* Texture::array_layer_count
array_layer_count(self) ==
    IF self.dimension \in {"D1", "D2"}
    THEN self.size.depth_or_array_layers
    ELSE 1

calc_subresource_LayerStride(self, mip_level, array_layer, plane, overflow_checks) ==
    u32_add(U32(mip_level),
            u32_mul(u32_add(U32(array_layer),
                            u32_mul(U32(plane), U32(array_layer_count(self)),
                                    overflow_checks),
                            overflow_checks),
                    U32(array_layer_count(self)),
                    overflow_checks),
            overflow_checks)

\* Texture::calc_subresource:
\* mip_level + (array_layer + plane * self.array_layer_count())
\*               * self.mip_level_count
calc_subresource(self, mip_level, array_layer, plane, overflow_checks) ==
    u32_add(U32(mip_level),
            u32_mul(u32_add(U32(array_layer),
                            u32_mul(U32(plane), U32(array_layer_count(self)),
                                    overflow_checks),
                            overflow_checks),
                    U32(self.mip_level_count),
                    overflow_checks),
            overflow_checks)

\* Texture::calc_subresource_for_copy
calc_subresource_for_copy(self, base, overflow_checks) ==
    calc_subresource(self, base.mip_level, base.array_layer, 0,
                     overflow_checks)

(* ---------------------------------------------------------------------- *)
(* Statement order of the operations that call the native layer            *)
(* ---------------------------------------------------------------------- *)
ConfigureResizeArm_ReleaseFirst ==
    <<"release_resources", "wait_idle", "ResizeBuffers">>

\* Surface::configure, arm Some(sc) of the match on self.swap_chain.take()
ConfigureResizeArm == <<"wait_idle", "release_resources", "ResizeBuffers">>

\* Surface::configure, arm None
ConfigureCreateArm == <<"CreateSwapChainForHwnd", "cast">>

\* Surface::configure after the match
ConfigureTail == <<"store">>

UnconfigureBody_IdleFirst ==
    <<"wait_idle", "wait", "release_resources", "destroy">>

\* Surface::unconfigure, body of the if let Some(sc)
UnconfigureBody == <<"wait", "wait_idle", "release_resources", "destroy">>

(* ---------------------------------------------------------------------- *)
(* State                                                                   *)
(* ---------------------------------------------------------------------- *)
VARIABLES
    swap_chain,     \* Surface.swap_chain : Option<SwapChain>
    pc,             \* statements left of the surface operation in progress
    call,           \* locals of the operation in progress / last finished
    trace,          \* native calls made by that operation, in order
    last_op,        \* name of that operation
    result,         \* its return value (<<"pending">> while in progress)
    live,           \* native references obtained and not yet destroyed
    inflight,       \* backbuffer resources referenced by GPU work in flight
    epoch,          \* number of configure calls started
    acquire_calls,  \* acquire_texture calls since the last other surface call
    configured,     \* swap_chain_size of the latest configure that returned Ok
    double_destroy, \* whether a destroy was made on a reference not alive
    hres,           \* last HResult translation applied: argument and result
    waited,         \* last SwapChain::wait applied: argument and result
    classified,     \* last two codes given to into_result, and the results
    pass,           \* CommandEncoder.pass : PassState
    open_passes,    \* kinds of the passes begun and not yet ended
    enc,            \* last encoder operation: name, pass before it, outcome
    tex,            \* the Texture the subresource index is taken of
    plane_count,    \* number of planes of its format
    overflow_checks,\* whether the build checks integer overflow
    lookup          \* last subresource index taken: arguments and outcome

surface_vars ==
    <<swap_chain, pc, call, trace, last_op, result, live, inflight, epoch,
      acquire_calls, configured, double_destroy>>
translate_vars == <<hres, waited, classified>>
encoder_vars == <<pass, open_passes, enc>>
texture_vars == <<tex, plane_count, overflow_checks, lookup>>
pure_vars == <<translate_vars, encoder_vars, texture_vars>>
vars == <<surface_vars, pure_vars>>

NoCall ==
    [config |-> None, flags |-> {}, sc |-> None, old |-> None, raw |-> None,
     idle |-> <<"none">>, native |-> <<"none">>, status |-> 0, prior |-> 0,
     count |-> 0]

NoHres == [pair |-> <<0, 0>>, unit |-> <<"none">>, device |-> <<"none">>]
NoLookup ==
    [op |-> "none", mip_level |-> 0, array_layer |-> 0, plane |-> 0,
     out |-> <<"none">>]
NoWaited == [sc |-> None, timeout_ms |-> 0, status |-> 0, out |-> None]

Idle == pc = <<>>
At(stmt) == pc # <<>> /\ Head(pc) = stmt
Range(f) == {f[x] : x \in DOMAIN f}

Init ==
    /\ swap_chain = None
    /\ pc = <<>>
    /\ call = NoCall
    /\ trace = <<>>
    /\ last_op = "new"
    /\ result = <<"unit">>
    /\ live = {}
    /\ inflight = {}
    /\ epoch = 0
    /\ acquire_calls = 0
    /\ configured = None
    /\ double_destroy = FALSE
    /\ hres = NoHres
    /\ waited = NoWaited
    /\ classified = [a |-> 0, ra |-> <<"none">>, b |-> 0, rb |-> <<"none">>]
    /\ pass = PassState_new
    /\ open_passes = <<>>
    /\ enc = [op |-> "new", before |-> PassState_new, was_open |-> FALSE,
              result |-> <<"unit">>]
    /\ tex = [dimension |-> "D2", size |-> [depth_or_array_layers |-> 1],
              mip_level_count |-> 1]
    /\ plane_count = 1
    /\ overflow_checks = FALSE
    /\ lookup = NoLookup

(* ---------------------------------------------------------------------- *)
(* Surface::configure                                                      *)
(* ---------------------------------------------------------------------- *)
\* entry: flags, then match self.swap_chain.take()
Configure(config) ==
    /\ Idle
    /\ epoch < MaxConfigures
    /\ LET t == take(swap_chain)
       IN  /\ swap_chain' = t.left
           /\ call' = [NoCall EXCEPT !.config = Some(config),
                                     !.flags = SwapChainFlags(config),
                                     !.sc = t.value, !.old = t.value]
           /\ pc' = (IF IsSome(t.value) THEN ConfigureResizeArm
                     ELSE ConfigureCreateArm) \o ConfigureTail
    /\ epoch' = epoch + 1
    /\ trace' = <<>>
    /\ last_op' = "configure"
    /\ result' = <<"pending">>
    /\ acquire_calls' = 0
    /\ UNCHANGED <<live, inflight, configured, double_destroy, pure_vars>>

\* let _ = device.wait_idle();   (configure and unconfigure)
WaitIdle(hr) ==
    /\ At("wait_idle")
    /\ LET w == wait_idle(hr, inflight)
       IN  /\ inflight' = w.inflight
           /\ call' = [call EXCEPT !.idle = w.result]
    /\ trace' = Append(trace, <<"wait_idle">>)
    /\ pc' = Tail(pc)
    /\ UNCHANGED <<swap_chain, last_op, result, live, epoch, acquire_calls,
                   configured, double_destroy, pure_vars>>

\* one iteration of the loop of SwapChain::release_resources; after the
\* last one the raw swapchain is returned   (configure and unconfigure).
\* inflight follows the resources that exist: work whose resource is
\* destroyed under it is no longer tracked after this step.
ReleaseResource ==
    /\ At("release_resources")
    /\ IsSome(call.sc)
    /\ LET sc == Unwrap(call.sc)
           rest == Tail(sc.resources)
       IN  /\ sc.resources # <<>>
           /\ live' = live \ {Head(sc.resources)}
           /\ double_destroy' =
                  (double_destroy \/ Head(sc.resources) \notin live)
           /\ inflight' = inflight \ {Head(sc.resources)}
           /\ trace' = Append(trace, <<"destroy", Head(sc.resources)>>)
           /\ IF rest = <<>>
              THEN /\ call' = [call EXCEPT !.sc = None, !.raw = Some(sc.raw)]
                   /\ pc' = Tail(pc)
              ELSE /\ call' = [call EXCEPT !.sc = Some([sc EXCEPT
                                               !.resources = rest])]
                   /\ pc' = pc
    /\ UNCHANGED <<swap_chain, last_op, result, epoch, acquire_calls,
                   configured, pure_vars>>

\* raw.ResizeBuffers(..) and the test of its result
ResizeBuffers(hr) ==
    /\ At("ResizeBuffers")
    /\ trace' = Append(trace, <<"ResizeBuffers",
                                Unwrap(call.config).swap_chain_size,
                                call.flags>>)
    /\ call' = [call EXCEPT !.native = into_result(hr)]
    /\ IF IsErr(into_result(hr))
       THEN /\ result' = ErrWindowInUse
            /\ pc' = <<>>
       ELSE /\ result' = result
            /\ pc' = Tail(pc)
    /\ UNCHANGED <<swap_chain, last_op, live, inflight, epoch,
                   acquire_calls, configured, double_destroy, pure_vars>>

\* self.factory.CreateSwapChainForHwnd(..) and the test of its result
CreateSwapChainForHwnd(hr) ==
    /\ At("CreateSwapChainForHwnd")
    /\ trace' = Append(trace, <<"CreateSwapChainForHwnd",
                                Unwrap(call.config).swap_chain_size,
                                call.flags>>)
    /\ call' = [call EXCEPT !.native = into_result(hr)]
    /\ IF IsErr(into_result(hr))
       THEN /\ result' = ErrSwapChainCreation
            /\ pc' = <<>>
            /\ live' = live
       ELSE /\ result' = result
            /\ pc' = Tail(pc)
            /\ live' = live \cup {SwapChain1Handle(epoch)}
    /\ UNCHANGED <<swap_chain, last_op, inflight, epoch, acquire_calls,
                   configured, double_destroy, pure_vars>>

\* swap_chain1.cast::<IDXGISwapChain3>().into_result() and its match
Cast(hr) ==
    /\ At("cast")
    /\ trace' = Append(trace, <<"cast">>)
    /\ LET r == pair_into_result(<<SwapChain3Handle(epoch), hr>>)
       IN  IF IsOk(r)
           THEN /\ live' = (live \cup {r[2]}) \ {SwapChain1Handle(epoch)}
                /\ call' = [call EXCEPT !.raw = Some(r[2]), !.native = <<"Ok">>]
                /\ result' = result
                /\ pc' = Tail(pc)
           ELSE /\ live' = live
                /\ call' = [call EXCEPT !.native = r]
                /\ result' = ErrSwapChainCast
                /\ pc' = <<>>
    /\ UNCHANGED <<swap_chain, last_op, inflight, epoch, acquire_calls,
                   configured, double_destroy, pure_vars>>

\* MakeWindowAssociation, SetMaximumFrameLatency,
\* GetFrameLatencyWaitableObject, the GetBuffer loop, self.swap_chain =
\* Some(SwapChain {..}), Ok(())
Store ==
    /\ At("store")
    /\ IsSome(call.raw)
    /\ LET n == Unwrap(call.config).swap_chain_size
           resources == GetBuffers(epoch, n)
       IN  /\ swap_chain' = Some(NewSwapChain(Unwrap(call.raw), resources,
                                              WaitableHandle(epoch)))
           /\ live' = live \cup Range(resources)
           /\ trace' = trace \o <<<<"MakeWindowAssociation">>,
                                  <<"SetMaximumFrameLatency", n>>,
                                  <<"GetFrameLatencyWaitableObject">>>>
                             \o [p \in 1..n |-> <<"GetBuffer", p - 1>>]
    /\ result' = <<"Ok">>
    /\ pc' = <<>>
    /\ configured' = Some(Unwrap(call.config).swap_chain_size)
    /\ UNCHANGED <<call, last_op, inflight, epoch, acquire_calls, double_destroy, pure_vars>>

(* ---------------------------------------------------------------------- *)
(* Surface::unconfigure                                                    *)
(* ---------------------------------------------------------------------- *)
\* if let Some(mut sc) = self.swap_chain.take() { .. }: the statements left
\* to run for the value taken
UnconfigureArm_Always(o) == UnconfigureBody
UnconfigureArm(o) == IF IsSome(o) THEN UnconfigureBody ELSE <<>>

Unconfigure ==
    /\ Idle
    /\ LET t == take(swap_chain)
       IN  /\ swap_chain' = t.left
           /\ call' = [NoCall EXCEPT !.sc = t.value, !.old = t.value]
           /\ pc' = UnconfigureArm(t.value)
           /\ result' = IF IsSome(t.value) THEN <<"pending">> ELSE <<"unit">>
    /\ trace' = <<>>
    /\ last_op' = "unconfigure"
    /\ acquire_calls' = 0
    /\ UNCHANGED <<live, inflight, epoch, configured, double_destroy, pure_vars>>

\* let _ = sc.wait(winbase::INFINITE);  a wait without timeout does not
\* return WAIT_TIMEOUT
Wait(status) ==
    /\ At("wait")
    /\ IsSome(call.sc)
    /\ status # WAIT_TIMEOUT
    /\ LET w == wait(Unwrap(call.sc), INFINITE, status)
       IN  call' = [call EXCEPT !.sc = Some(w.sc)]
    /\ trace' = Append(trace, <<"wait", INFINITE>>)
    /\ pc' = Tail(pc)
    /\ UNCHANGED <<swap_chain, last_op, result, live, inflight, epoch,
                   acquire_calls, configured, double_destroy, pure_vars>>

\* raw.destroy(); and the return
Destroy ==
    /\ At("destroy")
    /\ IsSome(call.raw)
    /\ live' = live \ {Unwrap(call.raw)}
    /\ double_destroy' = (double_destroy \/ Unwrap(call.raw) \notin live)
    /\ trace' = Append(trace, <<"destroy", Unwrap(call.raw)>>)
    /\ result' = <<"unit">>
    /\ pc' = Tail(pc)
    /\ UNCHANGED <<swap_chain, call, last_op, inflight, epoch, acquire_calls,
                   configured, pure_vars>>

(* ---------------------------------------------------------------------- *)
(* Surface::acquire_texture, Surface::discard_texture, Queue               *)
(* ---------------------------------------------------------------------- *)
\* status is what a wait on the frame-latency handle would return for
\* timeout_ms at the time of the call
AcquireTexture(timeout_ms, status) ==
    /\ Idle
    /\ acquire_calls < MaxAcquireCalls
    /\ timeout_ms = INFINITE => status # WAIT_TIMEOUT
    /\ call' = [NoCall EXCEPT
                    !.status = status, !.prior = acquire_calls,
                    !.count = IF IsSome(swap_chain)
                              THEN Unwrap(swap_chain).acquired_count ELSE 0]
    /\ acquire_calls' = acquire_calls + 1
    /\ trace' = <<>>
    /\ last_op' = "acquire_texture"
    /\ result' = <<"Ok", None>>
    /\ UNCHANGED <<swap_chain, pc, live, inflight, epoch, configured, double_destroy, pure_vars>>

DiscardTexture(texture) ==
    /\ Idle
    /\ call' = NoCall
    /\ acquire_calls' = 0
    /\ trace' = <<>>
    /\ last_op' = "discard_texture"
    /\ result' = <<"unit">>
    /\ UNCHANGED <<swap_chain, pc, live, inflight, epoch, configured, double_destroy, pure_vars>>

Present(texture) ==
    /\ Idle
    /\ call' = NoCall
    /\ acquire_calls' = 0
    /\ trace' = <<>>
    /\ last_op' = "present"
    /\ result' = <<"Ok">>
    /\ UNCHANGED <<swap_chain, pc, live, inflight, epoch, configured, double_destroy, pure_vars>>

Submit ==
    /\ Idle
    /\ call' = NoCall
    /\ trace' = <<>>
    /\ last_op' = "submit"
    /\ result' = <<"Ok">>
    /\ UNCHANGED <<swap_chain, pc, live, inflight, epoch, acquire_calls,
                   configured, double_destroy, pure_vars>>

\* the textures a caller can pass to discard_texture and present: one per
\* backbuffer resource of the current swapchain, and one of its own
Textures ==
    {<<"Texture", 0>>} \cup
        (IF IsSome(swap_chain) THEN Range(Unwrap(swap_chain).resources)
         ELSE {})

(* ---------------------------------------------------------------------- *)
(* The GPU                                                                 *)
(* ---------------------------------------------------------------------- *)
\* work that references backbuffer r is queued; queueing happens between
\* surface operations, not during one
GpuBegin(r) ==
    /\ Idle
    /\ IsSome(swap_chain)
    /\ r \in Range(Unwrap(swap_chain).resources)
    /\ r \notin inflight
    /\ inflight' = inflight \cup {r}
    /\ UNCHANGED <<swap_chain, pc, call, trace, last_op, result, live, epoch,
                   acquire_calls, configured, double_destroy, pure_vars>>

\* the GPU finishes the work that references r, at any time
GpuRetire(r) ==
    /\ r \in inflight
    /\ inflight' = inflight \ {r}
    /\ UNCHANGED <<swap_chain, pc, call, trace, last_op, result, live, epoch,
                   acquire_calls, configured, double_destroy, pure_vars>>

Next ==
    \/ \E config \in Configs : Configure(config)
    \/ \E hr \in HResultCodes : WaitIdle(hr)
    \/ ReleaseResource
    \/ \E hr \in HResultCodes : ResizeBuffers(hr)
    \/ \E hr \in HResultCodes : CreateSwapChainForHwnd(hr)
    \/ \E hr \in HResultCodes : Cast(hr)
    \/ Store
    \/ Unconfigure
    \/ \E status \in WaitStatuses : Wait(status)
    \/ Destroy
    \/ \E timeout_ms \in Timeouts, status \in WaitStatuses :
           AcquireTexture(timeout_ms, status)
    \/ \E texture \in Textures : DiscardTexture(texture)
    \/ \E texture \in Textures : Present(texture)
    \/ Submit
    \/ \E r \in live : GpuBegin(r)
    \/ \E r \in inflight : GpuRetire(r)

Spec == Init /\ [][Next]_vars

(* ---------------------------------------------------------------------- *)
(* The translations applied to enumerated arguments                        *)
(* ---------------------------------------------------------------------- *)
Payloads == 0..MaxPayload

\* swapchain values SwapChain::wait is applied to
WaitSwapChains ==
    {NewSwapChain(SwapChain3Handle(1), GetBuffers(1, n), WaitableHandle(1)) :
        n \in 1..MaxSwapChainSize}

\* (value, code).into_device_result(..) and code.into_device_result(..)
ApplyIntoDeviceResult(pair) ==
    /\ hres' = [pair |-> pair,
                unit |-> into_device_result(pair[2]),
                device |-> pair_into_device_result(pair)]
    /\ UNCHANGED <<surface_vars, waited, classified, encoder_vars,
                   texture_vars>>

\* sc.wait(timeout_ms) where the native wait returns status
ApplyWait(sc, timeout_ms, status) ==
    /\ timeout_ms = INFINITE => status # WAIT_TIMEOUT
    /\ waited' = [sc |-> Some(sc), timeout_ms |-> timeout_ms,
                  status |-> status,
                  out |-> Some(wait(sc, timeout_ms, status))]
    /\ UNCHANGED <<surface_vars, hres, classified, encoder_vars,
                   texture_vars>>

\* a.into_result() and b.into_result()
ApplyIntoResult(a, b) ==
    /\ classified' = [a |-> a, ra |-> into_result(a),
                      b |-> b, rb |-> into_result(b)]
    /\ UNCHANGED <<surface_vars, hres, waited, encoder_vars, texture_vars>>

NextClassify ==
    \E a \in HResultCodes, b \in HResultCodes : ApplyIntoResult(a, b)

SpecClassify == Init /\ [][NextClassify]_vars

NextPure ==
    \/ \E v \in Payloads, code \in HResultCodes :
           ApplyIntoDeviceResult(<<v, code>>)
    \/ \E sc \in WaitSwapChains, timeout_ms \in Timeouts,
          status \in WaitStatuses : ApplyWait(sc, timeout_ms, status)

SpecPure == Init /\ [][NextPure]_vars

(* ---------------------------------------------------------------------- *)
(* CommandEncoder: the operations that use PassState                       *)
(* ---------------------------------------------------------------------- *)
\* what the encoder can tell of its pass state: whether it holds the
\* values PassState::new and PassState::clear give
is_idle(p) ==
    /\ ~p.has_label
    /\ p.resolves = <<>>
    /\ p.dirty_vertex_buffers = 0
    /\ p.kind = "Transfer"

Max(a, b) == IF a >= b THEN a ELSE b

Done(op, outcome) ==
    [op |-> op, before |-> pass, was_open |-> open_passes # <<>>,
     result |-> outcome]

\* begin_render_pass / begin_compute_pass / the start of transfer
\* operations: a usage error when the pass state is not idle; a render
\* pass stores its resolves
BeginPass(kind, label, n) ==
    /\ Len(open_passes) < MaxOpenPasses
    /\ kind # "Render" => n = 0
    /\ IF is_idle(pass)
       THEN /\ pass' = [pass EXCEPT !.kind = kind, !.has_label = label,
                                    !.resolves = [i \in 1..n |-> i]]
            /\ open_passes' = Append(open_passes, kind)
            /\ enc' = Done("begin_pass", <<"Ok">>)
       ELSE /\ UNCHANGED <<pass, open_passes>>
            /\ enc' = Done("begin_pass", <<"Err", "usage">>)
    /\ UNCHANGED <<surface_vars, translate_vars, texture_vars>>

\* set_vertex_buffer(slot, view) in a render pass: writes the view and
\* marks the slots up to it dirty
SetVertexBuffer(slot, view) ==
    /\ pass.kind = "Render"
    /\ pass' = [pass EXCEPT
                    !.vertex_buffers[slot] = view,
                    !.dirty_vertex_buffers =
                        Max(pass.dirty_vertex_buffers, slot)]
    /\ enc' = Done("set_vertex_buffer", <<"unit">>)
    /\ UNCHANGED <<open_passes, surface_vars, translate_vars, texture_vars>>

\* a draw in a render pass: the dirty slots are bound in one batch and the
\* dirty count goes back to zero
Draw ==
    /\ pass.kind = "Render"
    /\ pass' = [pass EXCEPT !.dirty_vertex_buffers = 0]
    /\ enc' = Done("draw", <<"unit">>)
    /\ UNCHANGED <<open_passes, surface_vars, translate_vars, texture_vars>>

\* end_pass: the queued resolves are executed, then self.pass.clear()
EndPass ==
    /\ open_passes # <<>>
    /\ pass' = clear(pass)
    /\ open_passes' = SubSeq(open_passes, 1, Len(open_passes) - 1)
    /\ enc' = Done("end_pass", <<"unit">>)
    /\ UNCHANGED <<surface_vars, translate_vars, texture_vars>>

NextPass ==
    \/ \E kind \in PassKinds, label \in BOOLEAN, n \in 0..MaxColorTargets :
           BeginPass(kind, label, n)
    \/ \E slot \in 1..MaxVertexBuffers, view \in VertexBufferViews :
           SetVertexBuffer(slot, view)
    \/ Draw
    \/ EndPass

SpecPass == Init /\ [][NextPass]_vars

(* ---------------------------------------------------------------------- *)
(* Texture subresource indices                                             *)
(* ---------------------------------------------------------------------- *)
\* the arguments looked at for a count c: the first ones, the last one in
\* range and the first one out of range
IndexSamples(c) == {i \in {0, 1, c - 1, c} : i >= 0}
MipLevels == IndexSamples(tex.mip_level_count)
ArrayLayers == IndexSamples(array_layer_count(tex))
Planes == IndexSamples(plane_count)

\* a texture comes into being (its creation is device code)
NewTexture(t, planes, checks) ==
    /\ tex' = t
    /\ plane_count' = planes
    /\ overflow_checks' = checks
    /\ lookup' = NoLookup
    /\ UNCHANGED <<surface_vars, translate_vars, encoder_vars>>

CalcSubresource(mip_level, array_layer, plane) ==
    /\ lookup' = [op |-> "calc_subresource", mip_level |-> mip_level,
                  array_layer |-> array_layer, plane |-> plane,
                  out |-> calc_subresource(tex, mip_level, array_layer,
                                           plane, overflow_checks)]
    /\ UNCHANGED <<tex, plane_count, overflow_checks, surface_vars,
                   translate_vars, encoder_vars>>

CalcSubresourceForCopy(base) ==
    /\ lookup' = [op |-> "calc_subresource_for_copy",
                  mip_level |-> base.mip_level,
                  array_layer |-> base.array_layer, plane |-> 0,
                  out |-> calc_subresource_for_copy(tex, base,
                                                    overflow_checks)]
    /\ UNCHANGED <<tex, plane_count, overflow_checks, surface_vars,
                   translate_vars, encoder_vars>>

NextTexture ==
    \/ \E t \in TextureValues, planes \in 1..MaxPlanes, checks \in BOOLEAN :
          NewTexture(t, planes, checks)
    \/ \E mip_level \in MipLevels, array_layer \in ArrayLayers,
          plane \in Planes :
          CalcSubresource(mip_level, array_layer, plane)
    \/ \E base \in [mip_level : MipLevels, array_layer : ArrayLayers] :
          CalcSubresourceForCopy(base)

SpecTexture == Init /\ [][NextTexture]_vars

(* ---------------------------------------------------------------------- *)
(* Properties                                                              *)
(* ---------------------------------------------------------------------- *)
IsPrefix(s, t) == Len(s) <= Len(t) /\ SubSeq(t, 1, Len(s)) = s
Occurs(name) == \E i \in 1..Len(trace) : trace[i][1] = name
Destroys(resources) ==
    [p \in 1..Len(resources) |-> <<"destroy", resources[p]>>]

ResizeCall == last_op = "configure" /\ IsSome(call.old)
TeardownCall == last_op = "unconfigure" /\ IsSome(call.old)

\* C1: whenever configure has returned an error (resize, creation or cast
\* failure), the surface holds no swapchain, whatever it held before the
\* call.
C1_ErrorLeavesNoSwapChain ==
    (last_op = "configure" /\ IsErr(result)) => swap_chain = None

C1_Witness ==
    /\ ResizeCall
    /\ result = <<"Err", "Other", "window is in use">>
    /\ swap_chain = None

\* C2: at every point of a configure call that found a swapchain, the
\* native calls made so far are the device-idle wait, then the destruction
\* of each old backbuffer in order, then ResizeBuffers: no backbuffer is
\* destroyed before the wait, and ResizeBuffers is called only when no old
\* backbuffer is left alive.
C2_ResizeOrder ==
    ResizeCall =>
        LET old == Unwrap(call.old).resources
            expected ==
                <<<<"wait_idle">>>> \o Destroys(old) \o
                <<<<"ResizeBuffers", Unwrap(call.config).swap_chain_size,
                    call.flags>>>>
        IN  /\ IsPrefix(trace, expected) \/ IsPrefix(expected, trace)
            /\ Idle => IsPrefix(expected, trace)
            /\ Occurs("ResizeBuffers") => Range(old) \cap live = {}

C2_Witness ==
    /\ ResizeCall
    /\ Idle
    /\ result = <<"Ok">>
    /\ Len(Unwrap(call.old).resources) >= 2

\* C3: no step destroys a backbuffer resource that GPU work in flight still
\* references.
C3_NoReleaseInFlight ==
    [][\A r \in live \ live' : r \notin inflight]_vars

\* C4: at every point of an unconfigure call that found a swapchain, the
\* native calls made so far are the wait on the frame-latency handle
\* without timeout, the device-idle wait, the destruction of each
\* backbuffer, the destruction of the native swapchain, in this order; when
\* the call has returned all of them were made and the surface holds no
\* swapchain.
C4_UnconfigureOrder ==
    TeardownCall =>
        LET sc == Unwrap(call.old)
            expected ==
                <<<<"wait", INFINITE>>, <<"wait_idle">>>> \o
                Destroys(sc.resources) \o <<<<"destroy", sc.raw>>>>
        IN  /\ IsPrefix(trace, expected)
            /\ swap_chain = None
            /\ Idle => trace = expected /\ sc.raw \notin live
                       /\ Range(sc.resources) \cap live = {}

C4_Witness ==
    /\ TeardownCall
    /\ Idle
    /\ Len(trace) >= 5
    /\ swap_chain = None

\* C5: after a configure that returned Ok, on either path, the surface
\* holds a swapchain with config.swap_chain_size resources, position i
\* holding the buffer of native index i obtained by this call, the wait
\* handle obtained by this call, and acquired_count 0; and whenever the
\* surface holds a swapchain, its number of resources is the
\* swap_chain_size of the most recent configure that returned Ok.
C5_ConfigureOkState ==
    /\ (last_op = "configure" /\ result = <<"Ok">>) =>
           /\ IsSome(swap_chain)
           /\ LET sc == Unwrap(swap_chain)
                  n == Unwrap(call.config).swap_chain_size
              IN  /\ Len(sc.resources) = n
                  /\ \A p \in 1..n :
                         sc.resources[p] = <<"Resource", epoch, p - 1>>
                  /\ sc.waitable = <<"Waitable", epoch>>
                  /\ sc.acquired_count = 0
                  /\ Range(sc.resources) \subseteq live
    /\ IsSome(swap_chain) =>
           /\ IsSome(configured)
           /\ Len(Unwrap(swap_chain).resources) = Unwrap(configured)

C5_Witness ==
    /\ ResizeCall
    /\ result = <<"Ok">>
    /\ Len(Unwrap(call.old).resources) # Unwrap(call.config).swap_chain_size
    /\ Len(Unwrap(swap_chain).resources) = MaxSwapChainSize

\* C6: whenever the surface holds a swapchain, its acquired_count is at
\* least 0 and at most its number of backbuffer resources.
C6_AcquiredCountInRange ==
    IsSome(swap_chain) =>
        /\ Unwrap(swap_chain).acquired_count >= 0
        /\ Unwrap(swap_chain).acquired_count
               <= Len(Unwrap(swap_chain).resources)

C6_Witness ==
    /\ IsSome(swap_chain)
    /\ last_op = "acquire_texture"
    /\ call.prior >= 1

\* C7: an acquire_texture on a configured surface whose frame-latency
\* handle is signalled within the timeout returns a texture and leaves
\* acquired_count one higher than before the call.
C7_AcquireIncrements ==
    (last_op = "acquire_texture" /\ IsSome(swap_chain)
        /\ call.status = WAIT_OBJECT_0) =>
        /\ IsOk(result)
        /\ result # <<"Ok", None>>
        /\ Unwrap(swap_chain).acquired_count = call.count + 1

\* C8: an acquire_texture that follows as many acquire_texture calls as
\* the swapchain has buffers, with no present or discard in between,
\* returns an error (Lost or other).
C8_ExhaustedAcquireFails ==
    (last_op = "acquire_texture" /\ IsSome(swap_chain)
        /\ call.prior >= Len(Unwrap(swap_chain).resources)) =>
        IsErr(result)

\* C9: SwapChain::wait returns Ok(true) exactly for a signalled wait,
\* Ok(false) exactly for a timeout, Err(Lost) exactly for every other
\* status (abandoned, failed, unrecognised), nothing else, and leaves the
\* swapchain as it was.
C9_WaitMapping ==
    IsSome(waited.out) =>
        LET out == Unwrap(waited.out)
            status == waited.status
        IN  /\ out.sc = Unwrap(waited.sc)
            /\ Len(out.result) = 2
            /\ out.result[1] \in {"Ok", "Err"}
            /\ out.result[1] = "Ok" => out.result[2] \in BOOLEAN
            /\ out.result[1] = "Err" => out.result[2] = "Lost"
            /\ (out.result[1] = "Ok" /\ out.result[2])
                   <=> status = WAIT_OBJECT_0
            /\ (out.result[1] = "Ok" /\ ~out.result[2])
                   <=> status = WAIT_TIMEOUT
            /\ out.result[1] = "Err"
                   <=> status \notin {WAIT_OBJECT_0, WAIT_TIMEOUT}

C9_Witness ==
    /\ IsSome(waited.out)
    /\ waited.status = WAIT_TIMEOUT
    /\ Unwrap(waited.out).result = <<"Ok", FALSE>>

\* C10: into_device_result succeeds exactly for the non-negative codes,
\* the (value, code) form then returning the value unchanged; for a
\* negative code it gives OutOfMemory exactly when the code is
\* E_OUTOFMEMORY and Lost for every other negative code.
C10_DeviceTranslation ==
    hres.device # <<"none">> =>
        LET value == hres.pair[1]
            code == hres.pair[2]
        IN  /\ IsOk(hres.device) <=> code >= 0
            /\ IsOk(hres.unit) <=> code >= 0
            /\ code >= 0 => hres.device = <<"Ok", value>>
                            /\ hres.unit = <<"Ok">>
            /\ code < 0 =>
                   /\ hres.device = hres.unit
                   /\ Len(hres.unit) = 2
                   /\ hres.unit[1] = "Err"
                   /\ hres.unit[2] = "OutOfMemory" <=> code = E_OUTOFMEMORY
                   /\ hres.unit[2] = "Lost" <=> code # E_OUTOFMEMORY

C10_Witness ==
    /\ hres.pair = <<MaxPayload, E_OUTOFMEMORY>>
    /\ hres.device = <<"Err", "OutOfMemory">>

\* C11: a configure that has returned gives an error exactly when the
\* native call it made last failed, and the error is always
\* SurfaceError::Other with one of three fixed strings that names that
\* call: "window is in use" for ResizeBuffers (only on the resize path),
\* "swap chain creation" for CreateSwapChainForHwnd and "swap chain cast
\* to 3" for the cast (only on the creation path); never Lost, never the
\* text of the status code.
C11_ConfigureErrors ==
    (last_op = "configure" /\ Idle) =>
        /\ IsErr(result) <=> IsErr(call.native)
        /\ IsErr(result) =>
               LET stage == trace[Len(trace)][1]
               IN  /\ Len(result) = 3
                   /\ result[2] = "Other"
                   /\ result[3] \in {"window is in use",
                                     "swap chain creation",
                                     "swap chain cast to 3"}
                   /\ result[3] = "window is in use"
                          <=> stage = "ResizeBuffers"
                   /\ result[3] = "swap chain creation"
                          <=> stage = "CreateSwapChainForHwnd"
                   /\ result[3] = "swap chain cast to 3" <=> stage = "cast"
                   /\ stage = "ResizeBuffers" <=> IsSome(call.old)
                   /\ stage \in {"CreateSwapChainForHwnd", "cast"}
                          <=> call.old = None

C11_Witness ==
    /\ last_op = "configure"
    /\ Idle
    /\ result = <<"Err", "Other", "swap chain cast to 3">>
    /\ call.native = <<"Err", "invalid argument">>

\* C12: in every configure call, the flags handed to ResizeBuffers (resize
\* path) and to CreateSwapChainForHwnd (creation path) contain the
\* allow-tearing flag exactly when config.present_mode is Immediate, and
\* always contain the frame-latency waitable-object flag.
C12_TearingOnlyImmediate ==
    last_op = "configure" =>
        \A i \in 1..Len(trace) :
            trace[i][1] \in {"ResizeBuffers", "CreateSwapChainForHwnd"} =>
                /\ "ALLOW_TEARING" \in trace[i][3]
                       <=> Unwrap(call.config).present_mode = "Immediate"
                /\ "FRAME_LATENCY_WAITABLE_OBJECT" \in trace[i][3]

C12_Witness ==
    /\ ResizeCall
    /\ Unwrap(call.config).present_mode = "Immediate"
    /\ Occurs("ResizeBuffers")
    /\ "ALLOW_TEARING" \in trace[Len(Unwrap(call.old).resources) + 2][3]

PassEnded == enc.op = "end_pass"

\* C13: after the pass state is cleared at the end of a pass, whatever it
\* held (label, resolves up to the maximum, dirty vertex buffers, any
\* kind), has_label is false, resolves is empty, dirty_vertex_buffers is 0
\* and kind is Transfer, as in a new PassState; clearing it once more
\* changes nothing.
C13_ClearResets ==
    PassEnded =>
        /\ pass.has_label = FALSE
        /\ pass.resolves = <<>>
        /\ pass.dirty_vertex_buffers = 0
        /\ pass.kind = "Transfer"
        /\ pass.has_label = PassState_new.has_label
        /\ pass.resolves = PassState_new.resolves
        /\ pass.dirty_vertex_buffers = PassState_new.dirty_vertex_buffers
        /\ pass.kind = PassState_new.kind
        /\ clear(pass) = pass

C13_Witness ==
    /\ PassEnded
    /\ enc.before.has_label
    /\ Len(enc.before.resolves) = MaxColorTargets
    /\ enc.before.dirty_vertex_buffers = MaxVertexBuffers
    /\ enc.before.kind = "Render"
    /\ is_idle(pass)

\* C14: at most one pass is open at a time; a begin made while a pass is
\* open fails as a usage error and leaves the pass state as it was; and
\* the pass state is idle exactly when no pass is open, whatever the kind
\* of the open pass.
C14_OnePassOpen ==
    /\ Len(open_passes) <= 1
    /\ (enc.op = "begin_pass" /\ enc.was_open) =>
           (enc.result = <<"Err", "usage">> /\ pass = enc.before)
    /\ is_idle(pass) <=> open_passes = <<>>

\* C18: clearing the pass state leaves vertex_buffers as it was: the views
\* written during the pass are still stored, only dirty_vertex_buffers
\* goes to 0, so the cleared state can differ from a new PassState in
\* vertex_buffers and in nothing else.
C18_ClearKeepsVertexBuffers ==
    PassEnded =>
        /\ pass.vertex_buffers = enc.before.vertex_buffers
        /\ pass = [PassState_new EXCEPT
                       !.vertex_buffers = enc.before.vertex_buffers]

C18_Witness ==
    /\ PassEnded
    /\ \A slot \in 1..MaxVertexBuffers : pass.vertex_buffers[slot] = 1
    /\ pass # PassState_new
    /\ pass.dirty_vertex_buffers = 0

Recognised == {E_UNEXPECTED, E_NOTIMPL, E_OUTOFMEMORY, E_INVALIDARG}
Opaque(code) == code < 0 /\ code \notin Recognised

UpperHex ==
    <<"0", "1", "2", "3", "4", "5", "6", "7",
      "8", "9", "A", "B", "C", "D", "E", "F">>
DigitValue(ch) == CHOOSE d \in 0..15 : UpperHex[d + 1] = ch
Value4(t, from) ==
    ((DigitValue(t[from]) * 16 + DigitValue(t[from + 1])) * 16
        + DigitValue(t[from + 2])) * 16 + DigitValue(t[from + 3])

\* r is what the claim says the classification of code is
Classifies(code, r) ==
    /\ r[1] \in {"Ok", "Err"}
    /\ r[1] = "Ok" <=> code >= 0
    /\ code >= 0 => Len(r) = 1
    /\ code < 0 => Len(r) = 2
    /\ code = E_UNEXPECTED => r[2] = "unexpected"
    /\ code = E_NOTIMPL => r[2] = "not implemented"
    /\ code = E_OUTOFMEMORY => r[2] = "out of memory"
    /\ code = E_INVALIDARG => r[2] = "invalid argument"
    /\ Opaque(code) =>
           LET t == r[2]
           IN  /\ Len(t) = 10
               /\ t[1] = "0" /\ t[2] = "x"
               /\ \A i \in 3..10 : \E d \in 0..15 : UpperHex[d + 1] = t[i]
               /\ (Value4(t, 3) - 65536) * 65536 + Value4(t, 7) = code

\* C15: into_result gives Ok for every non-negative code, for each of the
\* four recognised failure codes its own text, and for every other
\* negative code "0x" followed by the code's unsigned 32-bit value in
\* upper-case hexadecimal; two different failure codes of the same kind
\* (both recognised, or both not) never get the same cause.
C15_Classification ==
    classified.ra # <<"none">> =>
        /\ Classifies(classified.a, classified.ra)
        /\ Classifies(classified.b, classified.rb)
        /\ (classified.a # classified.b
               /\ ((classified.a \in Recognised /\ classified.b \in Recognised)
                     \/ (Opaque(classified.a) /\ Opaque(classified.b))))
               => classified.ra[2] # classified.rb[2]

C15_Witness ==
    /\ classified.a = -1
    /\ classified.b = -2147467259
    /\ classified.ra[2] = <<"0", "x", "F", "F", "F", "F", "F", "F", "F", "F">>
    /\ classified.rb[2] = <<"0", "x", "8", "0", "0", "0", "4", "0", "0", "5">>

(* ---------------------------------------------------------------------- *)
(* Ownership of native references across configure and unconfigure         *)
(* ---------------------------------------------------------------------- *)
SwapChainInterfaces == {"IDXGISwapChain1", "IDXGISwapChain3"}
SwapChainHandles(S) == {h \in S : h[1] \in SwapChainInterfaces}
ResourceHandles(S) == {h \in S : h[1] = "Resource"}
StoredSwapChains ==
    IF IsSome(swap_chain) THEN {Unwrap(swap_chain).raw} ELSE {}
StoredResources ==
    IF IsSome(swap_chain) THEN Range(Unwrap(swap_chain).resources) ELSE {}

\* C16: whenever configure or unconfigure has returned, on the Ok path or on
\* an error return, every swapchain reference that is still alive (the
\* swapchain taken from the surface, a newly created one, the interface
\* obtained before the cast) is the one stored in the surface: none is left
\* alive outside the surface.
C16_HandlesStoredOrDestroyed ==
    Idle => SwapChainHandles(live) \subseteq StoredSwapChains

\* C17: no destroy is ever made on a reference that is not alive, so no
\* backbuffer resource is destroyed twice; whenever an operation has
\* returned, the resources alive are exactly those of the stored swapchain,
\* so each one was destroyed by the call that found its swapchain; and after
\* a failed resize the surface holds nothing and the resources the call
\* released are all gone.
C17_ResourcesDestroyedOnce ==
    /\ ~double_destroy
    /\ Idle => ResourceHandles(live) = StoredResources
    /\ (Idle /\ ResizeCall /\ result = ErrWindowInUse)
          => /\ swap_chain = None
             /\ Range(Unwrap(call.old).resources) \cap live = {}
             /\ IsPrefix(Destroys(Unwrap(call.old).resources),
                         SubSeq(trace, 2, Len(trace)))

\* an unconfigure that found a swapchain has returned while a swapchain of an
\* earlier failed resize is still alive: the resources of both swapchains
\* have been through a release
C17_Witness ==
    /\ Idle
    /\ TeardownCall
    /\ ~double_destroy
    /\ \E h \in live : h[1] = "IDXGISwapChain3"
    /\ ResourceHandles(live) = {}

\* C19: an unconfigure that finds no swapchain returns at once: it makes no
\* native call (no wait, no idle wait, no release, no destroy), destroys
\* nothing and leaves the surface without swapchain, so a second unconfigure
\* in a row changes nothing the first one left; an unconfigure that found a
\* swapchain has destroyed it once, and no destroy is ever repeated.
C19_UnconfigureNoOp ==
    /\ [](~double_destroy)
    /\ []((Idle /\ TeardownCall) =>
            /\ Unwrap(call.old).raw \notin live
            /\ Cardinality({i \in 1..Len(trace) :
                              /\ trace[i][1] = "destroy"
                              /\ trace[i][2] = Unwrap(call.old).raw}) = 1)
    /\ [][(Unconfigure /\ swap_chain = None) =>
            /\ pc' = <<>>
            /\ trace' = <<>>
            /\ result' = <<"unit">>
            /\ swap_chain' = None
            /\ UNCHANGED <<live, inflight, double_destroy, epoch,
                           configured>>]_vars

\* the first configure has succeeded, an unconfigure has torn the swapchain
\* down, and a second unconfigure has found nothing
C19_Witness ==
    /\ Idle
    /\ last_op = "unconfigure"
    /\ call.old = None
    /\ swap_chain = None
    /\ epoch = 1
    /\ IsSome(configured)
    /\ SwapChainHandles(live) = {}

(* ---------------------------------------------------------------------- *)
(* Subresource indices                                                     *)
(* ---------------------------------------------------------------------- *)
MipCount == tex.mip_level_count
LayerCount == array_layer_count(tex)
\* M * L * P, exact
SubresourceCount ==
    WideMul(WideMul(Digits(MipCount, U32Len), Digits(LayerCount, U32Len)),
            Digits(plane_count, U32Len))
TwoTo32 == <<0, 0, 0, 0, 1>>
\* M * L * P <= 2^32: every index below it is a u32
CountFitsU32 == WideLess(SubresourceCount, WideAdd(TwoTo32, <<1>>))
\* M * L * P small enough for the integers of the checker
CountIsSmall ==
    MipCount <= MaxMips + 1 /\ LayerCount <= MaxLayers + 1
InRange(mip_level, array_layer, plane) ==
    mip_level < MipCount /\ array_layer < LayerCount /\ plane < plane_count
LookedUp == lookup.op # "none"
Number(d) == SumOf([i \in 1..Len(d) |-> d[i] * Radix ^ (i - 1)])

\* the index taken last is that of no other triple in range, and is below
\* M * L * P
InjectiveAndBelowCount ==
    /\ lookup.out[1] = "Ok"
    /\ WideLess(lookup.out[2], SubresourceCount)
    /\ \A mip_level \in MipLevels, array_layer \in ArrayLayers,
          plane \in Planes :
          (/\ InRange(mip_level, array_layer, plane)
           /\ <<mip_level, array_layer, plane>>
                 # <<lookup.mip_level, lookup.array_layer, lookup.plane>>)
             => calc_subresource(tex, mip_level, array_layer, plane,
                                 overflow_checks) # lookup.out

\* C20 as stated: for every texture with M >= 1 and L >= 1, the index of a
\* triple mip < M, layer < L, plane < P is an index below M * L * P that no
\* other such triple has, and the index for a copy is that of plane 0.
C20_Injective ==
    (LookedUp /\ InRange(lookup.mip_level, lookup.array_layer, lookup.plane))
       => InjectiveAndBelowCount

\* C20 amended: the same for every texture whose M * L * P is at most 2^32;
\* there no step of the computation overflows, the index is
\* mip + (layer + plane * L) * M, below M * L * P and that of no other triple
\* in range, in a build with overflow checks and in one without; and the
\* index for a copy is the one calc_subresource gives for plane 0.
C20_InjectiveWithinU32 ==
    (/\ LookedUp
     /\ CountFitsU32
     /\ InRange(lookup.mip_level, lookup.array_layer, lookup.plane))
       => /\ InjectiveAndBelowCount
          /\ CountIsSmall =>
                Number(lookup.out[2]) =
                   lookup.mip_level
                     + (lookup.array_layer + lookup.plane * LayerCount)
                         * MipCount
          /\ lookup.op = "calc_subresource_for_copy" =>
                /\ lookup.plane = 0
                /\ lookup.out = calc_subresource(tex, lookup.mip_level,
                                                 lookup.array_layer, 0,
                                                 overflow_checks)

\* the last index of the last plane of a texture with several mips, layers
\* and planes has been taken
C20_Witness ==
    /\ lookup.op = "calc_subresource"
    /\ MipCount > 1 /\ LayerCount > 1 /\ plane_count > 1
    /\ CountFitsU32
    /\ lookup.mip_level = MipCount - 1
    /\ lookup.array_layer = LayerCount - 1
    /\ lookup.plane = plane_count - 1
    /\ lookup.out[1] = "Ok"
====
